---- MODULE Spec2Model ----
(***************************************************************************)
(* Model of src/index.ts: an MCP server that registers five tools at       *)
(* module load, connects a stdio transport, and serves tool invocations.   *)
(* Every handler is an async function that suspends at its fetch call(s);  *)
(* a handler is modelled as one action per run-to-suspension segment.      *)
(*                                                                         *)
(* JSON values are modelled as [t, v]: t = "bad" (response.json() rejects),*)
(* t = "null" (the JSON literal null), t = "obj" (an object, v a record    *)
(* whose DOMAIN is the set of keys present).  An absent key is a key not   *)
(* in DOMAIN v.  Texts are built by string concatenation as the template   *)
(* literals of the source build them.                                      *)
(***************************************************************************)
EXTENDS Integers, Sequences, FiniteSets, TLC

VARIABLES loadPc, tools, regCalls, connect, proc, exitCause, stderr,
          inv, net, sent, recv

vars == <<loadPc, tools, regCalls, connect, proc, exitCause, stderr,
          inv, net, sent, recv>>

procVars == <<loadPc, tools, regCalls, connect, proc, exitCause, stderr>>

(***************************************************************************)
(* Bounds                                                                  *)
(***************************************************************************)
\* number of tool invocations the client issues (all may be in flight at once)
MaxInv == 2
\* forecast temperatures range over -MaxTemp..MaxTemp
MaxTemp == 1

Slots == 1..MaxInv
Temps == (0 - MaxTemp)..MaxTemp

(***************************************************************************)
(* Program constants                                                       *)
(***************************************************************************)
NWS_API_BASE == "https://api.weather.gov"
LOCAL_API_BASE == "http://localhost:3001"
NotificationUrl == LOCAL_API_BASE \o "/api/notification"
LatestTokenPriceUrl == LOCAL_API_BASE \o "/api/latestTokenPrice"
DegreeSign == "°"
\* the emoji that open the local-provider texts, spelled in ASCII
CheckMark == "[check]"
CrossMark == "[cross]"
InfoMark == "[info]"
MailMark == "[mailbox]"

(***************************************************************************)
(* Inputs the substrate may hand to the handlers (already schema-valid)    *)
(***************************************************************************)
StateInputs == {"ca"}
CoordInputs == {[latitude |-> 0 - 1, longitude |-> 2]}
SessionInputs == {"abc"}
AlertInputs == {[session_id |-> "abc", token |-> "ETH", targetPrice |-> "1928.23"]}

\* String.prototype.toUpperCase on the state codes of StateInputs
toUpperCase(s) == CASE s = "ca" -> "CA" [] OTHER -> s

\* Number.prototype.toFixed(4) on the (integer) coordinates of CoordInputs
toFixed4(n) == ToString(n) \o ".0000"

(***************************************************************************)
(* JavaScript helpers                                                      *)
(***************************************************************************)
RECURSIVE join(_, _)
\* Array.prototype.join
join(seq, sep) ==
    IF Len(seq) = 0 THEN ""
    ELSE IF Len(seq) = 1 THEN seq[1]
    ELSE seq[1] \o sep \o join(Tail(seq), sep)

Has(o, k) == k \in DOMAIN o

\* `${o.k || d}` for a string-valued field: absent and "" are both falsy
strOr(o, k, d) == IF Has(o, k) /\ o[k] # "" THEN o[k] ELSE d

\* `${o.k}` for a string-valued field: absent renders as "undefined"
strOf(o, k) == IF Has(o, k) THEN o[k] ELSE "undefined"

JsonBad == [t |-> "bad", v |-> <<>>]
JsonNull == [t |-> "null", v |-> <<>>]
Obj(rec) == [t |-> "obj", v |-> rec]
Raw(s) == [t |-> "text", v |-> s]
EmptyObj == Obj(<<>>)

\* a settled fetch: net = FALSE is a rejected fetch (network failure)
NetFail == [net |-> FALSE, status |-> 0, body |-> JsonBad]
Resp(status, body) == [net |-> TRUE, status |-> status, body |-> body]

\* Response.ok
ResponseOk(resp) == resp.status >= 200 /\ resp.status <= 299

Err(name, message) == [name |-> name, message |-> message]
NoErr == Err("", "")
FetchFailed == Err("TypeError", "fetch failed")
JsonSyntaxError == Err("SyntaxError", "Unexpected token < in JSON at position 0")
NullDeref == Err("TypeError", "Cannot read properties of null")
UndefinedDeref == Err("TypeError", "Cannot read properties of undefined")

\* `${error}` : Error.prototype.toString
errToString(e) == e.name \o ": " \o e.message

\* the return value of a handler: an envelope, or a rejection with error e
TextResult(s) == [thrown |-> NoErr, content |-> <<[type |-> "text", text |-> s]>>]
Thrown(e) == [thrown |-> e, content |-> <<>>]
NoResult == [thrown |-> NoErr, content |-> <<>>]

(***************************************************************************)
(* Request adapter and response formatters (pure functions)                *)
(***************************************************************************)
\* makeNWSRequest without its `!response.ok` check
makeNWSRequestNoStatusCheck(resp) ==
    IF ~resp.net THEN JsonNull
    ELSE IF resp.body.t = "bad" THEN JsonNull
    ELSE resp.body

\* makeNWSRequest after its fetch has settled with resp: the value returned
makeNWSRequest(resp) ==
    IF ~resp.net THEN JsonNull
    ELSE IF ~ResponseOk(resp) THEN JsonNull
    ELSE IF resp.body.t = "bad" THEN JsonNull
    ELSE resp.body

\* makeNWSRequest reaches its catch block (and logs to stderr)
makeNWSRequestCaught(resp) ==
    ~resp.net \/ ~ResponseOk(resp) \/ resp.body.t = "bad"

\* `!data` on the value makeNWSRequest returned
IsNull(data) == data.t = "null"

\* formatAlert reads props.event with props undefined
formatAlertThrows(feature) == ~Has(feature, "properties")

formatAlert(feature) ==
    LET props == feature.properties
    IN join(<<"Event: " \o strOr(props, "event", "Unknown"),
              "Area: " \o strOr(props, "areaDesc", "Unknown"),
              "Severity: " \o strOr(props, "severity", "Unknown"),
              "Status: " \o strOr(props, "status", "Unknown"),
              "Headline: " \o strOr(props, "headline", "No headline"),
              "---">>, "\n")

alertsUrl(state) == NWS_API_BASE \o "/alerts?area=" \o toUpperCase(state)

\* the get-alerts handler from the point where makeNWSRequest returned
getAlertsResult(state, alertsData) ==
    LET stateCode == toUpperCase(state)
        features == IF Has(alertsData.v, "features") THEN alertsData.v.features ELSE <<>>
    IN IF IsNull(alertsData) THEN TextResult("Failed to retrieve alerts data")
       ELSE IF Len(features) = 0 THEN TextResult("No active alerts for " \o stateCode)
       ELSE IF \E k \in DOMAIN features : formatAlertThrows(features[k])
            THEN Thrown(UndefinedDeref)
       ELSE TextResult("Active alerts for " \o stateCode \o ":\n\n"
                       \o join([k \in DOMAIN features |-> formatAlert(features[k])], "\n"))

\* `${period.temperature || "Unknown"}`: absent and 0 are both falsy
temperatureText(period) ==
    IF Has(period, "temperature") /\ period.temperature # 0
    THEN ToString(period.temperature) ELSE "Unknown"

temperatureLine(period) ==
    "Temperature: " \o temperatureText(period) \o DegreeSign
        \o strOr(period, "temperatureUnit", "F")

windLine(period) ==
    "Wind: " \o strOr(period, "windSpeed", "Unknown") \o " "
        \o strOr(period, "windDirection", "")

formatPeriod(period) ==
    join(<<strOr(period, "name", "Unknown") \o ":",
           temperatureLine(period),
           windLine(period),
           strOr(period, "shortForecast", "No forecast available"),
           "---">>, "\n")

pointsUrl(latitude, longitude) ==
    NWS_API_BASE \o "/points/" \o toFixed4(latitude) \o "," \o toFixed4(longitude)

\* `pointsData.properties?.forecast`, "" standing for undefined (both falsy)
forecastUrlOf(pointsData) ==
    IF Has(pointsData.v, "properties") /\ Has(pointsData.v.properties, "forecast")
    THEN pointsData.v.properties.forecast ELSE ""

Return(out) == [ret |-> TRUE, out |-> out, url |-> ""]
Fetch(url) == [ret |-> FALSE, out |-> NoResult, url |-> url]

\* pointsStep without its `!forecastUrl` check
pointsStepUncheckedUrl(latitude, longitude, pointsData) ==
    IF IsNull(pointsData)
    THEN Return(TextResult("Failed to retrieve grid point data for coordinates: "
                 \o ToString(latitude) \o ", " \o ToString(longitude)
                 \o ". This location may not be supported by the NWS API (only US locations are supported)."))
    ELSE Fetch(forecastUrlOf(pointsData))

\* pointsStep asking the grid lookup a second time when the first one failed
pointsStepRetry(latitude, longitude, pointsData) ==
    IF IsNull(pointsData)
    THEN Fetch(pointsUrl(latitude, longitude))
    ELSE IF forecastUrlOf(pointsData) = ""
    THEN Return(TextResult("Failed to get forecast URL from grid point data"))
    ELSE Fetch(forecastUrlOf(pointsData))

\* the get-forecast handler between its two awaits: return, or fetch url
pointsStep(latitude, longitude, pointsData) ==
    IF IsNull(pointsData)
    THEN Return(TextResult("Failed to retrieve grid point data for coordinates: "
                 \o ToString(latitude) \o ", " \o ToString(longitude)
                 \o ". This location may not be supported by the NWS API (only US locations are supported)."))
    ELSE IF forecastUrlOf(pointsData) = ""
    THEN Return(TextResult("Failed to get forecast URL from grid point data"))
    ELSE Fetch(forecastUrlOf(pointsData))

\* the get-forecast handler from the point where the second request returned
getForecastResult(latitude, longitude, forecastData) ==
    LET periods == IF Has(forecastData.v, "properties")
                      /\ Has(forecastData.v.properties, "periods")
                   THEN forecastData.v.properties.periods ELSE <<>>
    IN IF IsNull(forecastData) THEN TextResult("Failed to retrieve forecast data")
       ELSE IF Len(periods) = 0 THEN TextResult("No forecast periods available")
       ELSE TextResult("Forecast for " \o ToString(latitude) \o ", "
                       \o ToString(longitude) \o ":\n\n"
                       \o join([k \in DOMAIN periods |-> formatPeriod(periods[k])], "\n"))

\* JSON.stringify({session_id, token, targetPrice})
notificationBody(arg) ==
    "{\"session_id\":\"" \o arg.session_id \o "\",\"token\":\"" \o arg.token
        \o "\",\"targetPrice\":\"" \o arg.targetPrice \o "\"}"

\* registerNotificationResult with a `!response.ok` check added
registerNotificationChecksStatus(resp) ==
    IF ~resp.net THEN TextResult(CrossMark \o " Failed to register alert: " \o errToString(FetchFailed))
    ELSE IF ~ResponseOk(resp)
    THEN TextResult(CrossMark \o " Failed to register alert: " \o errToString(Err("TypeError", "terminated")))
    ELSE IF resp.body.t = "bad"
    THEN TextResult(CrossMark \o " Failed to register alert: " \o errToString(Err("TypeError", "terminated")))
    ELSE TextResult(CheckMark \o " Price alert registered successfully:\n\n" \o resp.body.v)

\* the register-notification handler once fetch and response.text() settled
registerNotificationResult(resp) ==
    IF ~resp.net THEN TextResult(CrossMark \o " Failed to register alert: " \o errToString(FetchFailed))
    ELSE IF resp.body.t = "bad"
    THEN TextResult(CrossMark \o " Failed to register alert: " \o errToString(Err("TypeError", "terminated")))
    ELSE TextResult(CheckMark \o " Price alert registered successfully:\n\n" \o resp.body.v)

userNotificationUrl(session_id) ==
    LOCAL_API_BASE \o "/api/userNotification?session_id=" \o session_id

formatNotification(n, i) ==
    "#" \o ToString(i) \o " - Token: " \o strOf(n, "token") \o ", Target: "
        \o strOf(n, "targetPrice") \o ", Condition: " \o strOf(n, "condition")

\* the catch block of get-user-notifications
notificationsCatch(e) ==
    TextResult(CrossMark \o " Failed to fetch notifications: "
               \o (IF e.message # "" THEN e.message ELSE "Unknown error"))

\* the get-user-notifications handler once fetch and response.json() settled
getUserNotificationsResult(session_id, resp) ==
    LET data == resp.body
        notifications == IF Has(data.v, "userNotifications")
                         THEN data.v.userNotifications ELSE <<>>
    IN IF ~resp.net THEN notificationsCatch(FetchFailed)
       ELSE IF data.t = "bad" THEN notificationsCatch(JsonSyntaxError)
       ELSE IF data.t = "null" THEN notificationsCatch(NullDeref)
       ELSE IF Len(notifications) = 0
       THEN TextResult(InfoMark \o " No notifications found for session: " \o session_id)
       ELSE TextResult(MailMark \o " Notifications for session **" \o session_id \o "**:\n\n"
                \o join([k \in DOMAIN notifications |->
                            formatNotification(notifications[k], k)], "\n"))

\* JSON.stringify(value, null, 2) of a flat object given as <<key, number>> pairs
stringify2(pairs) ==
    IF Len(pairs) = 0 THEN "{}"
    ELSE "{\n" \o join([k \in DOMAIN pairs |->
                  "  \"" \o pairs[k][1] \o "\": " \o ToString(pairs[k][2])], ",\n")
         \o "\n}"

\* the catch block of get-latest-token-price
tokenPriceCatch(e) ==
    TextResult("Error retrieving latest token prices: " \o errToString(e))

\* the get-latest-token-price handler once fetch and response.json() settled
getLatestTokenPriceResult(resp) ==
    LET data == resp.body
    IN IF ~resp.net THEN tokenPriceCatch(FetchFailed)
       ELSE IF ~ResponseOk(resp)
       THEN tokenPriceCatch(Err("Error", "Failed to fetch latest token prices"))
       ELSE IF data.t = "bad" THEN tokenPriceCatch(JsonSyntaxError)
       ELSE IF data.t = "null" THEN tokenPriceCatch(NullDeref)
       ELSE TextResult("Latest Token Prices:\n\n"
                \o (IF Has(data.v, "latestTokenPrices")
                    THEN stringify2(data.v.latestTokenPrices) ELSE "undefined"))

(***************************************************************************)
(* The two providers: what a request may be answered with                  *)
(***************************************************************************)
ForecastUrl == NWS_API_BASE \o "/gridpoints/MTR/84,105/forecast"

FullAlert == [properties |-> [event |-> "Flood Warning", areaDesc |-> "Marin",
                              severity |-> "Severe", status |-> "Actual",
                              headline |-> "Flood Warning issued"]]
BareAlert == [properties |-> <<>>]
NoPropsAlert == <<>>

AlertBodies ==
    {JsonBad, JsonNull, EmptyObj} \cup
    {Obj([features |-> fs]) : fs \in {<<>>, <<FullAlert>>, <<BareAlert>>,
                                      <<NoPropsAlert>>, <<FullAlert, BareAlert>>}}

PointsBodies ==
    {JsonBad, JsonNull, EmptyObj, Obj([properties |-> <<>>]),
     Obj([properties |-> [forecast |-> ""]]),
     Obj([properties |-> [forecast |-> ForecastUrl]])}

BasePeriod == [name |-> "Tonight", temperatureUnit |-> "F",
               windSpeed |-> "5 mph", shortForecast |-> "Clear"]
WithTemp == {BasePeriod} \cup {BasePeriod @@ [temperature |-> t] : t \in Temps}
Periods ==
    WithTemp \cup {BasePeriod @@ [windDirection |-> "NW"],
                   BasePeriod @@ [temperature |-> MaxTemp, windDirection |-> "NW"],
                   <<>>}

ForecastBodies ==
    {JsonBad, JsonNull, EmptyObj, Obj([properties |-> <<>>]),
     Obj([properties |-> [periods |-> <<>>]])} \cup
    {Obj([properties |-> [periods |-> <<p>>]]) : p \in Periods} \cup
    {Obj([properties |-> [periods |-> <<BasePeriod @@ [temperature |-> MaxTemp], <<>> >>]])}

Notification1 == [id |-> "1", session_id |-> "abc", token |-> "ETH",
                  targetPrice |-> "1928.23", condition |-> "above"]
Notification2 == [id |-> "2", session_id |-> "abc", token |-> "BTC",
                  targetPrice |-> "60000", condition |-> "below"]

UserNotificationBodies ==
    {JsonBad, JsonNull, EmptyObj, Obj([message |-> "Internal error"])} \cup
    {Obj([userNotifications |-> ns]) :
        ns \in {<<>>, <<Notification1>>, <<Notification1, Notification2>>}}

TokenPriceBodies ==
    {JsonBad, JsonNull, EmptyObj, Obj([latestTokenPrices |-> <<>>]),
     Obj([latestTokenPrices |-> << <<"ETH", 1928>>, <<"BTC", 60000>> >>])}

\* response.text(): JsonBad stands for a body whose read rejects
NotificationBodies ==
    {JsonBad, Raw("{\"message\":\"created\"}"), Raw("Internal Server Error")}

\* a provider answers 200 with any of bodies, or 500 with any of errBodies,
\* or the fetch fails
Answering(bodies, errBodies) ==
    {NetFail} \cup {Resp(200, b) : b \in bodies} \cup {Resp(500, b) : b \in errBodies}

\* every way the provider addressed by req may settle the fetch
Responses(req) ==
    IF req.url = ForecastUrl
    THEN Answering(ForecastBodies,
                   {JsonBad, Obj([properties |-> [periods |-> <<BasePeriod>>]])})
    ELSE IF req.url = NotificationUrl
    THEN Answering(NotificationBodies, NotificationBodies \ {JsonBad})
    ELSE IF req.url = LatestTokenPriceUrl
    THEN Answering(TokenPriceBodies,
                   {EmptyObj, Obj([latestTokenPrices |-> << <<"ETH", 1928>> >>])})
    ELSE IF \E s \in StateInputs : req.url = alertsUrl(s)
    THEN Answering(AlertBodies,
                   {JsonBad, Obj([features |-> <<>>]), Obj([features |-> <<FullAlert>>])})
    ELSE IF \E c \in CoordInputs : req.url = pointsUrl(c.latitude, c.longitude)
    THEN Answering(PointsBodies,
                   {JsonBad, Obj([properties |-> [forecast |-> ForecastUrl]])})
    ELSE IF \E s \in SessionInputs : req.url = userNotificationUrl(s)
    THEN Answering(UserNotificationBodies,
                   {JsonBad, EmptyObj, Obj([message |-> "Internal error"]),
                    Obj([userNotifications |-> <<Notification1>>])})
    ELSE {NetFail, Resp(404, EmptyObj)}

(***************************************************************************)
(* State                                                                   *)
(***************************************************************************)
\* the top-level statements of the module, in source order
LoadSteps == <<"get-alerts", "get-forecast", "register-notification",
               "get-user-notifications", "get-latest-token-price",
               "main", "get-latest-token-price">>

Idle == [st |-> "idle", tool |-> "none", arg |-> <<>>, out |-> NoResult]

Init ==
    /\ loadPc = 1
    /\ tools = {}
    /\ regCalls = <<>>
    /\ connect = "notCalled"
    /\ proc = "running"
    /\ exitCause = "none"
    /\ stderr = <<>>
    /\ inv = [i \in Slots |-> Idle]
    /\ net = {}
    /\ sent = [i \in Slots |-> <<>>]
    /\ recv = [i \in Slots |-> <<>>]

Loading == proc = "running" /\ loadPc <= Len(LoadSteps)

(***************************************************************************)
(* Module load and startup                                                 *)
(***************************************************************************)
\* server.tool(name, ...) for a name not yet in the registry
RegisterTool ==
    /\ Loading
    /\ LoadSteps[loadPc] # "main"
    /\ LoadSteps[loadPc] \notin tools
    /\ tools' = tools \cup {LoadSteps[loadPc]}
    /\ regCalls' = Append(regCalls, LoadSteps[loadPc])
    /\ loadPc' = loadPc + 1
    /\ UNCHANGED <<connect, proc, exitCause, stderr, inv, net, sent, recv>>

\* server.tool(name, ...) for a name already in the registry, on an SDK that
\* rejects it: the error is thrown at module top level and ends the process
RegisterExistingThrows ==
    /\ Loading
    /\ LoadSteps[loadPc] # "main"
    /\ LoadSteps[loadPc] \in tools
    /\ regCalls' = Append(regCalls, LoadSteps[loadPc])
    /\ proc' = "exited"
    /\ exitCause' = "uncaughtException"
    /\ stderr' = Append(stderr, "Uncaught Error: Tool " \o LoadSteps[loadPc]
                                 \o " is already registered")
    /\ UNCHANGED <<loadPc, tools, connect, inv, net, sent, recv>>

\* the same call on an SDK that accepts it: the (identical) handler is rebound
RegisterExistingReplaces ==
    /\ Loading
    /\ LoadSteps[loadPc] # "main"
    /\ LoadSteps[loadPc] \in tools
    /\ regCalls' = Append(regCalls, LoadSteps[loadPc])
    /\ loadPc' = loadPc + 1
    /\ UNCHANGED <<tools, connect, proc, exitCause, stderr, inv, net, sent, recv>>

\* main() runs up to `await server.connect(transport)`
CallMain ==
    /\ Loading
    /\ LoadSteps[loadPc] = "main"
    /\ connect' = "pending"
    /\ loadPc' = loadPc + 1
    /\ UNCHANGED <<tools, regCalls, proc, exitCause, stderr, inv, net, sent, recv>>

\* server.connect resolves; main() logs and returns
ConnectResolves ==
    /\ proc = "running"
    /\ loadPc > Len(LoadSteps)
    /\ connect = "pending"
    /\ connect' = "connected"
    /\ stderr' = Append(stderr, "Weather MCP Server running on stdio")
    /\ UNCHANGED <<loadPc, tools, regCalls, proc, exitCause, inv, net, sent, recv>>

\* server.connect rejects; main().catch logs and calls process.exit(1)
ConnectRejects ==
    /\ proc = "running"
    /\ loadPc > Len(LoadSteps)
    /\ connect = "pending"
    /\ connect' = "failed"
    /\ stderr' = Append(stderr, "Fatal error in main():")
    /\ proc' = "exited"
    /\ exitCause' = "connectFailed"
    /\ UNCHANGED <<loadPc, tools, regCalls, inv, net, sent, recv>>

(***************************************************************************)
(* Tool invocations                                                        *)
(***************************************************************************)
Serving == proc = "running" /\ connect = "connected"

\* the substrate dispatches its invocations in slot order
CanCall(i, tool) ==
    /\ Serving
    /\ tool \in tools
    /\ inv[i].st = "idle"
    /\ \A j \in Slots : j < i => inv[j].st # "idle"

Request(i, method, url, body) ==
    [owner |-> i, n |-> Len(sent[i]) + 1, method |-> method, url |-> url, body |-> body]

\* handler i runs up to `await fetch(...)`
Issue(i, st, tool, arg, method, url, body) ==
    /\ inv' = [inv EXCEPT ![i] = [st |-> st, tool |-> tool, arg |-> arg, out |-> NoResult]]
    /\ net' = net \cup {Request(i, method, url, body)}
    /\ sent' = [sent EXCEPT ![i] = Append(@, Request(i, method, url, body))]

\* handler i returns (or rejects with) out
Finish(i, out) ==
    inv' = [inv EXCEPT ![i].st = "done", ![i].out = out]

\* Settle with the response held in a variable all handlers share: handler i
\* resumes on the response to any request in flight
SettleShared(i, req, resp) ==
    /\ req \in net
    /\ resp \in Responses(req)
    /\ recv' = [recv EXCEPT ![req.owner] = Append(@, resp)]

\* the request of handler i in flight is settled with resp; recv records, per
\* invocation, the responses the providers gave to its own requests
Settle(i, req, resp) ==
    /\ req \in net
    /\ req.owner = i
    /\ resp \in Responses(req)
    /\ recv' = [recv EXCEPT ![req.owner] = Append(@, resp)]

\* console.error in the catch block of makeNWSRequest
LogNWS(resp) ==
    stderr' = IF makeNWSRequestCaught(resp)
              THEN Append(stderr, "Error making NWS request:") ELSE stderr

GetAlertsCall(i, state) ==
    /\ CanCall(i, "get-alerts")
    /\ Issue(i, "await1", "get-alerts", [state |-> state], "GET", alertsUrl(state), "")
    /\ UNCHANGED <<loadPc, tools, regCalls, connect, proc, exitCause, stderr, recv>>

GetAlertsSettle(i) ==
    /\ proc = "running"
    /\ inv[i].tool = "get-alerts" /\ inv[i].st = "await1"
    /\ \E req \in net : \E resp \in Responses(req) :
        /\ Settle(i, req, resp)
        /\ net' = net \ {req}
        /\ LogNWS(resp)
        /\ Finish(i, getAlertsResult(inv[i].arg.state, makeNWSRequest(resp)))
    /\ UNCHANGED <<loadPc, tools, regCalls, connect, proc, exitCause, sent>>

GetForecastCall(i, c) ==
    /\ CanCall(i, "get-forecast")
    /\ Issue(i, "await1", "get-forecast", c, "GET", pointsUrl(c.latitude, c.longitude), "")
    /\ UNCHANGED <<loadPc, tools, regCalls, connect, proc, exitCause, stderr, recv>>

GetForecastPointsSettle(i) ==
    /\ proc = "running"
    /\ inv[i].tool = "get-forecast" /\ inv[i].st = "await1"
    /\ \E req \in net : \E resp \in Responses(req) :
        LET step == pointsStep(inv[i].arg.latitude, inv[i].arg.longitude,
                               makeNWSRequest(resp))
            next == [owner |-> i, n |-> Len(sent[i]) + 1, method |-> "GET",
                     url |-> step.url, body |-> ""]
        IN /\ Settle(i, req, resp)
           /\ LogNWS(resp)
           /\ IF step.ret
              THEN /\ Finish(i, step.out)
                   /\ net' = net \ {req}
                   /\ sent' = sent
              ELSE /\ inv' = [inv EXCEPT ![i].st = "await2"]
                   /\ net' = (net \ {req}) \cup {next}
                   /\ sent' = [sent EXCEPT ![i] = Append(@, next)]
    /\ UNCHANGED <<loadPc, tools, regCalls, connect, proc, exitCause>>

GetForecastSettle(i) ==
    /\ proc = "running"
    /\ inv[i].tool = "get-forecast" /\ inv[i].st = "await2"
    /\ \E req \in net : \E resp \in Responses(req) :
        /\ Settle(i, req, resp)
        /\ net' = net \ {req}
        /\ LogNWS(resp)
        /\ Finish(i, getForecastResult(inv[i].arg.latitude, inv[i].arg.longitude,
                                       makeNWSRequest(resp)))
    /\ UNCHANGED <<loadPc, tools, regCalls, connect, proc, exitCause, sent>>

RegisterNotificationCall(i, a) ==
    /\ CanCall(i, "register-notification")
    /\ Issue(i, "await1", "register-notification", a, "POST", NotificationUrl,
             notificationBody(a))
    /\ UNCHANGED <<loadPc, tools, regCalls, connect, proc, exitCause, stderr, recv>>

RegisterNotificationSettle(i) ==
    /\ proc = "running"
    /\ inv[i].tool = "register-notification" /\ inv[i].st = "await1"
    /\ \E req \in net : \E resp \in Responses(req) :
        /\ Settle(i, req, resp)
        /\ net' = net \ {req}
        /\ Finish(i, registerNotificationResult(resp))
    /\ UNCHANGED <<loadPc, tools, regCalls, connect, proc, exitCause, stderr, sent>>

GetUserNotificationsCall(i, session_id) ==
    /\ CanCall(i, "get-user-notifications")
    /\ Issue(i, "await1", "get-user-notifications", [session_id |-> session_id],
             "GET", userNotificationUrl(session_id), "")
    /\ UNCHANGED <<loadPc, tools, regCalls, connect, proc, exitCause, stderr, recv>>

GetUserNotificationsSettle(i) ==
    /\ proc = "running"
    /\ inv[i].tool = "get-user-notifications" /\ inv[i].st = "await1"
    /\ \E req \in net : \E resp \in Responses(req) :
        /\ Settle(i, req, resp)
        /\ net' = net \ {req}
        /\ Finish(i, getUserNotificationsResult(inv[i].arg.session_id, resp))
    /\ UNCHANGED <<loadPc, tools, regCalls, connect, proc, exitCause, stderr, sent>>

GetLatestTokenPriceCall(i) ==
    /\ CanCall(i, "get-latest-token-price")
    /\ Issue(i, "await1", "get-latest-token-price", <<>>, "GET", LatestTokenPriceUrl, "")
    /\ UNCHANGED <<loadPc, tools, regCalls, connect, proc, exitCause, stderr, recv>>

GetLatestTokenPriceSettle(i) ==
    /\ proc = "running"
    /\ inv[i].tool = "get-latest-token-price" /\ inv[i].st = "await1"
    /\ \E req \in net : \E resp \in Responses(req) :
        /\ Settle(i, req, resp)
        /\ net' = net \ {req}
        /\ Finish(i, getLatestTokenPriceResult(resp))
    /\ UNCHANGED <<loadPc, tools, regCalls, connect, proc, exitCause, stderr, sent>>

Next ==
    \/ RegisterTool
    \/ RegisterExistingThrows
    \/ RegisterExistingReplaces
    \/ CallMain
    \/ ConnectResolves
    \/ ConnectRejects
    \/ \E i \in Slots : \E state \in StateInputs : GetAlertsCall(i, state)
    \/ \E i \in Slots : GetAlertsSettle(i)
    \/ \E i \in Slots : \E c \in CoordInputs : GetForecastCall(i, c)
    \/ \E i \in Slots : GetForecastPointsSettle(i)
    \/ \E i \in Slots : GetForecastSettle(i)
    \/ \E i \in Slots : \E a \in AlertInputs : RegisterNotificationCall(i, a)
    \/ \E i \in Slots : RegisterNotificationSettle(i)
    \/ \E i \in Slots : \E session_id \in SessionInputs : GetUserNotificationsCall(i, session_id)
    \/ \E i \in Slots : GetUserNotificationsSettle(i)
    \/ \E i \in Slots : GetLatestTokenPriceCall(i)
    \/ \E i \in Slots : GetLatestTokenPriceSettle(i)

Spec == Init /\ [][Next]_vars

(***************************************************************************)
(* Properties                                                              *)
(***************************************************************************)
Done(i) == inv[i].st = "done"
Text(i) == inv[i].out.content[1].text

\* a fetch that ended in a network failure or a non-2xx status
RequestFailed(resp) == ~resp.net \/ resp.status \notin 200..299
\* a 2xx response whose body is a JSON object
Decoded(resp) == resp.net /\ resp.status \in 200..299 /\ resp.body.t = "obj"

\* C1: every invocation that completes returns an envelope of exactly one
\* text block and raises nothing, whatever its outbound calls produced.
C1_HandlersNeverThrow ==
    \A i \in Slots : Done(i) =>
        /\ inv[i].out.thrown = NoErr
        /\ Len(inv[i].out.content) = 1
        /\ inv[i].out.content[1].type = "text"

GridFailureText(c) ==
    "Failed to retrieve grid point data for coordinates: " \o ToString(c.latitude)
        \o ", " \o ToString(c.longitude)
        \o ". This location may not be supported by the NWS API (only US locations are supported)."
UrlMissingText == "Failed to get forecast URL from grid point data"

HasForecastUrl(resp) ==
    /\ Decoded(resp)
    /\ Has(resp.body.v, "properties")
    /\ Has(resp.body.v.properties, "forecast")
    /\ resp.body.v.properties.forecast # ""

\* C2: get-forecast issues its second request only after the grid lookup
\* settled successfully with a non-empty forecast URL, and to exactly that
\* URL; otherwise it issues no second request and returns the grid-failure
\* or URL-missing text; its two requests are never in flight together.
C2_ForecastChain ==
    \A i \in Slots : inv[i].tool = "get-forecast" =>
        /\ Len(sent[i]) \in {1, 2}
        /\ Cardinality({r \in net : r.owner = i}) <= 1
        /\ Len(sent[i]) = 2 =>
              /\ Len(recv[i]) >= 1
              /\ HasForecastUrl(recv[i][1])
              /\ sent[i][2].url = recv[i][1].body.v.properties.forecast
              /\ sent[i][2].method = "GET"
        /\ (Len(recv[i]) >= 1 /\ ~HasForecastUrl(recv[i][1])) =>
              /\ Len(sent[i]) = 1
              /\ Done(i)
              /\ Text(i) \in {GridFailureText(inv[i].arg), UrlMissingText}
              /\ (RequestFailed(recv[i][1]) \/ recv[i][1].body.t = "bad")
                    => Text(i) = GridFailureText(inv[i].arg)
              /\ Decoded(recv[i][1]) => Text(i) = UrlMissingText
        /\ (Len(recv[i]) >= 1 /\ HasForecastUrl(recv[i][1])) => Len(sent[i]) = 2

C2_Witness ==
    \E i, j \in Slots :
        /\ inv[i].tool = "get-forecast" /\ inv[i].st = "await2"
        /\ sent[i][2].url = ForecastUrl /\ sent[i][2] \in net
        /\ inv[j].tool = "get-forecast" /\ Done(j)
        /\ Len(sent[j]) = 1 /\ Text(j) = UrlMissingText

\* the details an error text may embed: `error.message` or `${error}` of
\* any error a fetch, a status check or a body read can raise
RaisedErrors ==
    {FetchFailed, JsonSyntaxError, NullDeref,
     Err("Error", "Failed to fetch latest token prices")}
ErrorDetails == {e.message : e \in RaisedErrors} \cup {errToString(e) : e \in RaisedErrors}

\* C3: get-user-notifications and get-latest-token-price answer a network
\* failure or a non-2xx status with their explicit error text embedding the
\* error detail, never with the success or the "No notifications" text.
C3_LocalReadFailuresAreErrors ==
    \A i \in Slots :
        (Done(i) /\ Len(recv[i]) = 1 /\ RequestFailed(recv[i][1])) =>
            /\ inv[i].tool = "get-user-notifications" =>
                   \E d \in ErrorDetails :
                       Text(i) = CrossMark \o " Failed to fetch notifications: " \o d
            /\ inv[i].tool = "get-latest-token-price" =>
                   \E d \in ErrorDetails :
                       Text(i) = "Error retrieving latest token prices: " \o d

\* a weather request that makeNWSRequest is to turn into null
NWSFailed(resp) == RequestFailed(resp) \/ resp.body.t = "bad"

NoAlertList(resp) ==
    Decoded(resp) /\ (Has(resp.body.v, "features") => Len(resp.body.v.features) = 0)

NoPeriodList(resp) ==
    /\ Decoded(resp)
    /\ (Has(resp.body.v, "properties") /\ Has(resp.body.v.properties, "periods"))
           => Len(resp.body.v.properties.periods) = 0

WeatherTools == {"get-alerts", "get-forecast"}

RECURSIVE NWSFailuresUpTo(_)
\* the number of failed weather requests of invocations 1..n
NWSFailuresUpTo(n) ==
    IF n = 0 THEN 0
    ELSE NWSFailuresUpTo(n - 1)
         + (IF inv[n].tool \in WeatherTools
            THEN Cardinality({k \in DOMAIN recv[n] : NWSFailed(recv[n][k])}) ELSE 0)

\* C4: a failed weather request (network failure, non-2xx, undecodable body)
\* is caught and logged inside makeNWSRequest and the handler returns its
\* fixed "Failed to retrieve ..." text; a decoded response with an empty or
\* absent alert/period list yields the informational text instead.
C4_WeatherFailureVersusEmpty ==
    /\ Cardinality({k \in DOMAIN stderr : stderr[k] = "Error making NWS request:"})
          = NWSFailuresUpTo(MaxInv)
    /\ \A i \in Slots :
        /\ (inv[i].tool = "get-alerts" /\ Done(i)) =>
              /\ NWSFailed(recv[i][1]) => Text(i) = "Failed to retrieve alerts data"
              /\ NoAlertList(recv[i][1]) =>
                    Text(i) = "No active alerts for " \o toUpperCase(inv[i].arg.state)
        /\ (inv[i].tool = "get-forecast" /\ Len(recv[i]) >= 1 /\ NWSFailed(recv[i][1])) =>
              Done(i) /\ Text(i) = GridFailureText(inv[i].arg)
        /\ (inv[i].tool = "get-forecast" /\ Len(recv[i]) = 2) =>
              /\ Done(i)
              /\ NWSFailed(recv[i][2]) => Text(i) = "Failed to retrieve forecast data"
              /\ NoPeriodList(recv[i][2]) => Text(i) = "No forecast periods available"

C4_Witness ==
    \E i, j \in Slots :
        /\ inv[i].tool = "get-alerts" /\ Done(i)
        /\ recv[i] = <<Resp(500, Obj([features |-> <<>>]))>>
        /\ inv[j].tool = "get-forecast" /\ Done(j)
        /\ Len(recv[j]) = 2 /\ recv[j][2] = Resp(200, EmptyObj)

RegisterFailureTexts ==
    {CrossMark \o " Failed to register alert: " \o d : d \in
        {"TypeError: fetch failed", "TypeError: terminated"}}

\* C5: register-notification embeds the raw body of any response it could
\* read in its success text, whatever the status; it returns its failure
\* text only when the fetch or the body read raised.
C5_RegisterIgnoresStatus ==
    \A i \in Slots : (inv[i].tool = "register-notification" /\ Done(i)) =>
        /\ (recv[i][1].net /\ recv[i][1].body.t = "text") =>
              Text(i) = CheckMark \o " Price alert registered successfully:\n\n"
                            \o recv[i][1].body.v
        /\ Text(i) \in RegisterFailureTexts =>
              (~recv[i][1].net \/ recv[i][1].body.t = "bad")
        /\ (~recv[i][1].net \/ recv[i][1].body.t = "bad") =>
              Text(i) \in RegisterFailureTexts

C5_Witness ==
    \E i \in Slots :
        /\ inv[i].tool = "register-notification" /\ Done(i)
        /\ recv[i] = <<Resp(500, Raw("Internal Server Error"))>>

\* C6: no tool name is registered twice during module load.
C6_NamesRegisteredOnce ==
    \A k, l \in DOMAIN regCalls : k # l => regCalls[k] # regCalls[l]

\* C7: the process terminates only through the failed-connect path of main().
C7_OnlyConnectFailureExits ==
    proc = "exited" => (exitCause = "connectFailed" /\ connect = "failed")

\* what handler i returns, computed from its own input and the responses
\* to its own requests alone
Expected(i) ==
    LET a == inv[i].arg
        r == recv[i]
    IN CASE inv[i].tool = "get-alerts" -> getAlertsResult(a.state, makeNWSRequest(r[1]))
         [] inv[i].tool = "get-forecast" ->
              IF Len(r) = 1
              THEN pointsStep(a.latitude, a.longitude, makeNWSRequest(r[1])).out
              ELSE getForecastResult(a.latitude, a.longitude, makeNWSRequest(r[2]))
         [] inv[i].tool = "register-notification" -> registerNotificationResult(r[1])
         [] inv[i].tool = "get-user-notifications" ->
              getUserNotificationsResult(a.session_id, r[1])
         [] inv[i].tool = "get-latest-token-price" -> getLatestTokenPriceResult(r[1])

\* C8: the result of every completed invocation is determined by its own
\* input and the responses to its own requests, whatever else is in flight,
\* has completed or has failed; and every response is delivered to the
\* invocation that issued the request.
C8_InvocationsIndependent ==
    \A i \in Slots :
        /\ Len(recv[i]) <= Len(sent[i])
        /\ Done(i) =>
              /\ Len(recv[i]) = Len(sent[i])
              /\ inv[i].out = Expected(i)

C8_Witness ==
    \E i, j \in Slots :
        /\ i # j /\ Done(i) /\ Done(j)
        /\ inv[i].tool = "get-alerts" /\ inv[i].out.thrown # NoErr
        /\ inv[j].tool = "register-notification"
        /\ Text(j) = CheckMark \o " Price alert registered successfully:\n\n"
                         \o "{\"message\":\"created\"}"

SingleRequestTools ==
    {"get-alerts", "register-notification", "get-user-notifications",
     "get-latest-token-price"}

\* C9: no retries: an invocation issues exactly one request (get-forecast:
\* one or two), and none after one of its requests has failed.
C9_NoRetries ==
    \A i \in Slots : inv[i].st # "idle" =>
        /\ inv[i].tool \in SingleRequestTools => Len(sent[i]) = 1
        /\ inv[i].tool = "get-forecast" => Len(sent[i]) \in {1, 2}
        /\ \A k \in DOMAIN recv[i] : RequestFailed(recv[i][k]) => Len(sent[i]) = k

C9_Witness ==
    \E i, j \in Slots :
        /\ inv[i].tool = "get-forecast" /\ Done(i)
        /\ Len(sent[i]) = 2 /\ recv[i][2] = NetFail
        /\ inv[j].tool = "get-forecast" /\ Done(j)
        /\ Len(sent[j]) = 1 /\ RequestFailed(recv[j][1])

\* the period block the formatting rules prescribe: a placeholder only for
\* a field that is absent
PrescribedPeriod(p) ==
    join(<<(IF Has(p, "name") THEN p.name ELSE "Unknown") \o ":",
           "Temperature: "
               \o (IF Has(p, "temperature") THEN ToString(p.temperature) ELSE "Unknown")
               \o DegreeSign \o (IF Has(p, "temperatureUnit") THEN p.temperatureUnit ELSE "F"),
           "Wind: " \o (IF Has(p, "windSpeed") THEN p.windSpeed ELSE "Unknown") \o " "
               \o (IF Has(p, "windDirection") THEN p.windDirection ELSE ""),
           IF Has(p, "shortForecast") THEN p.shortForecast ELSE "No forecast available",
           "---">>, "\n")

\* C10: every forecast period is rendered with its own values; a placeholder
\* appears only for an absent field (temperature "Unknown", direction "").
C10_PlaceholdersOnlyWhenAbsent ==
    \A i \in Slots :
        (inv[i].tool = "get-forecast" /\ Done(i) /\ Len(recv[i]) = 2
            /\ Decoded(recv[i][2]) /\ ~NoPeriodList(recv[i][2])) =>
            LET periods == recv[i][2].body.v.properties.periods
            IN Text(i) = "Forecast for " \o ToString(inv[i].arg.latitude) \o ", "
                            \o ToString(inv[i].arg.longitude) \o ":\n\n"
                            \o join([k \in DOMAIN periods |-> PrescribedPeriod(periods[k])], "\n")

====
